---- MODULE Spec2Model ----
(***************************************************************************)
(* DDPico firmware: the receive-to-render pipeline.                        *)
(*   CircularBuffer    firmware/lib/DDPController/CircularBuffer.h         *)
(*   COBSDecoder       firmware/lib/DDPController/COBSDecoder.h            *)
(*   DDPProtocol       firmware/lib/DDPController/DDPProtocol.h            *)
(*   BrightnessLimiter firmware/lib/DDPController/BrightnessLimiter.h      *)
(*   DDPController     firmware/lib/DDPController/DDPController.h          *)
(*   Orb               firmware/lib/Orb/Orb.h                              *)
(* Arrays are functions on 0..n-1, as in the source; byte sequences handed *)
(* to a call (data, length) are sequences, length = Len.                   *)
(***************************************************************************)
EXTENDS Integers, Sequences, FiniteSets, TLC

VARIABLES
    \* CircularBuffer<BUFFER_SIZE>
    buffer, writeIndex, readIndex, count,
    \* the caller's output buffer of CircularBuffer::read
    data,
    \* observation of the queue: the last call, the successful writes and reads,
    \* and the entries written and neither read nor discarded yet
    call, writes, reads, lossy, queued,
    \* COBSDecoder
    maxFrameSize, frameBuffer, framePos, decodeBuffer, decodedLength,
    \* the serial line: the bytes still to be received, the message they carry,
    \* and what processByte returned so far
    wire, msg, phase, ready, readyCount,
    \* DDPController::update: the bytes read from the queue (they are in data),
    \* the parsed packet and what parsePacket returned
    packetLen, packet, parsed,
    \* BrightnessLimiter
    totalLEDs, maxScale, minScale, thresholdCount,
    \* the pixel data handed to limitBrightness: as it is now, its pixel count,
    \* as it was before the first call, and the number of calls made
    rgbData, rgbCount, rgbBefore, applied,
    \* Orb: the strip length, the colours set, and the number of pixelsShow calls
    numLEDs, pixels, shows,
    \* DDPController; the counters are uint32_t and stay far below its wrap
    running, packetsReceived, packetsProcessed, packetsDropped,
    \* the frames the host has sent, and what the last update() did: how it
    \* ended, its orb.pixelSet calls in order and its orb.pixelsShow calls
    sent, tick,
    \* the owner of bufferMutex, where each core stands in its code, the counter
    \* value each core has loaded for an increment, and the increments each core
    \* has stored since begin()
    mutex, pc0, pc1, reg0, reg1, incs

qvars == <<buffer, writeIndex, readIndex, count>>
qobs  == <<call, writes, reads, lossy, queued>>
cvars == <<maxFrameSize, frameBuffer, framePos, decodeBuffer, decodedLength>>
cobs  == <<wire, msg, phase, ready, readyCount>>
pvars == <<packetLen, packet, parsed>>
lvars == <<totalLEDs, maxScale, minScale, thresholdCount>>
lobs  == <<rgbData, rgbCount, rgbBefore, applied>>
ovars == <<numLEDs, pixels, shows>>
dvars == <<running, packetsReceived, packetsProcessed, packetsDropped>>
dobs  == <<sent, tick>>
kvars == <<mutex, pc0, pc1, reg0, reg1>>
kobs  == <<incs>>
vars  == <<qvars, data, qobs, cvars, cobs, pvars, lvars, lobs, ovars, dvars, dobs,
           kvars, kobs>>

Byte == 0..255

Min(a, b) == IF a < b THEN a ELSE b

(***************************************************************************)
(* CircularBuffer                                                          *)
(***************************************************************************)

\* the template parameter: the size of the array `buffer`
BUFFER_SIZE == Cardinality(DOMAIN buffer)

\* buffer[idx] = b; idx = (idx + 1) % BUFFER_SIZE, for each byte of d in turn
RECURSIVE PutBytes(_, _, _)
PutBytes(buf, idx, d) ==
    IF d = <<>> THEN [buf |-> buf, idx |-> idx]
    ELSE PutBytes([buf EXCEPT ![idx] = Head(d)], (idx + 1) % BUFFER_SIZE, Tail(d))

\* the 16-bit big-endian length header
LengthHeader(length) == <<(length \div 256) % 256, length % 256>>

\* mutant of write: the write index is not wrapped at the end of the ring
RECURSIVE PutBytesNoWrap(_, _, _)
PutBytesNoWrap(buf, idx, d) ==
    IF d = <<>> THEN [buf |-> buf, idx |-> idx % BUFFER_SIZE]
    ELSE IF idx >= BUFFER_SIZE THEN PutBytesNoWrap(buf, idx + 1, Tail(d))
    ELSE PutBytesNoWrap([buf EXCEPT ![idx] = Head(d)], idx + 1, Tail(d))

writeNoWrap(d) ==
    LET length == Len(d) IN
    IF length = 0 \/ length > BUFFER_SIZE
    THEN [ret |-> FALSE, buffer |-> buffer, writeIndex |-> writeIndex, count |-> count]
    ELSE LET required == length + 2 IN
         IF count + required > BUFFER_SIZE
         THEN [ret |-> FALSE, buffer |-> buffer, writeIndex |-> writeIndex, count |-> count]
         ELSE LET p == PutBytesNoWrap(buffer, writeIndex, LengthHeader(length) \o d) IN
              [ret |-> TRUE, buffer |-> p.buf, writeIndex |-> p.idx,
               count |-> count + required]

\* mutant of write: the free-space test forgets the 2 header bytes
writeNoHeaderRoom(d) ==
    LET length == Len(d) IN
    IF length = 0 \/ length > BUFFER_SIZE
    THEN [ret |-> FALSE, buffer |-> buffer, writeIndex |-> writeIndex, count |-> count]
    ELSE LET required == length + 2 IN
         IF count + length > BUFFER_SIZE
         THEN [ret |-> FALSE, buffer |-> buffer, writeIndex |-> writeIndex, count |-> count]
         ELSE LET p == PutBytes(buffer, writeIndex, LengthHeader(length) \o d) IN
              [ret |-> TRUE, buffer |-> p.buf, writeIndex |-> p.idx,
               count |-> count + required]

\* bool write(const uint8_t* data, size_t length), between mutex_enter and mutex_exit
write(d) ==
    LET length == Len(d) IN
    IF length = 0 \/ length > BUFFER_SIZE
    THEN [ret |-> FALSE, buffer |-> buffer, writeIndex |-> writeIndex, count |-> count]
    ELSE LET required == length + 2 IN
         IF count + required > BUFFER_SIZE
         THEN [ret |-> FALSE, buffer |-> buffer, writeIndex |-> writeIndex, count |-> count]
         ELSE LET p == PutBytes(buffer, writeIndex, LengthHeader(length) \o d) IN
              [ret |-> TRUE, buffer |-> p.buf, writeIndex |-> p.idx,
               count |-> count + required]

\* data[i] = buffer[idx]; idx = (idx + 1) % BUFFER_SIZE, for i = from .. length-1
RECURSIVE GetBytes(_, _, _, _)
GetBytes(out, idx, i, length) ==
    IF i >= length THEN [out |-> out, idx |-> idx]
    ELSE GetBytes([out EXCEPT ![i] = buffer[idx]], (idx + 1) % BUFFER_SIZE, i + 1, length)

\* mutant of read: a failed length check returns 0 without resetting the queue
readNoReset(out, maxLength) ==
    IF count < 2
    THEN [ret |-> 0, data |-> out, readIndex |-> readIndex, count |-> count]
    ELSE LET lenHigh == buffer[readIndex]
             r1      == (readIndex + 1) % BUFFER_SIZE
             lenLow  == buffer[r1]
             r2      == (r1 + 1) % BUFFER_SIZE
             length  == lenHigh * 256 + lenLow
         IN  IF length = 0 \/ length > maxLength \/ count < length + 2
             THEN [ret |-> 0, data |-> out, readIndex |-> r2, count |-> count]
             ELSE LET g == GetBytes(out, r2, 0, length) IN
                  [ret |-> length, data |-> g.out, readIndex |-> g.idx,
                   count |-> count - (length + 2)]

\* mutant of read: the emptiness test comes after the header has been consumed
readLateEmptyCheck(out, maxLength) ==
    LET lenHigh == buffer[readIndex]
        r1      == (readIndex + 1) % BUFFER_SIZE
        lenLow  == buffer[r1]
        r2      == (r1 + 1) % BUFFER_SIZE
        length  == lenHigh * 256 + lenLow
    IN  IF count < 2
        THEN [ret |-> 0, data |-> out, readIndex |-> r2, count |-> count]
        ELSE IF length = 0 \/ length > maxLength \/ count < length + 2
        THEN [ret |-> 0, data |-> out, readIndex |-> writeIndex, count |-> 0]
        ELSE LET g == GetBytes(out, r2, 0, length) IN
             [ret |-> length, data |-> g.out, readIndex |-> g.idx,
              count |-> count - (length + 2)]

\* size_t read(uint8_t* data, size_t maxLength), between mutex_enter and mutex_exit;
\* out is the caller's buffer before the call
read(out, maxLength) ==
    IF count < 2
    THEN [ret |-> 0, data |-> out, readIndex |-> readIndex, count |-> count]
    ELSE LET lenHigh == buffer[readIndex]
             r1      == (readIndex + 1) % BUFFER_SIZE
             lenLow  == buffer[r1]
             r2      == (r1 + 1) % BUFFER_SIZE
             length  == lenHigh * 256 + lenLow       \* ((uint16_t)lenHigh << 8) | lenLow
         IN  IF length = 0 \/ length > maxLength \/ count < length + 2
             THEN [ret |-> 0, data |-> out, readIndex |-> writeIndex, count |-> 0]
             ELSE LET g == GetBytes(out, r2, 0, length) IN
                  [ret |-> length, data |-> g.out, readIndex |-> g.idx,
                   count |-> count - (length + 2)]

\* bool available()
available == count >= 2

\* size_t availableSpace()
availableSpace == BUFFER_SIZE - count

\* mutant of clear: the indices are reset, the used count is kept
clearIndicesOnly == [writeIndex |-> 0, readIndex |-> 0, count |-> count]

\* void clear(), between mutex_enter and mutex_exit
clear == [writeIndex |-> 0, readIndex |-> 0, count |-> 0]

\* the queue is not part of the specification
QueueUnusedButData ==
    /\ buffer = <<>>
    /\ writeIndex = 0
    /\ readIndex = 0
    /\ count = 0
    /\ call = [op |-> "none"]
    /\ writes = <<>>
    /\ reads = <<>>
    /\ lossy = FALSE
    /\ queued = <<>>

QueueUnused ==
    /\ data = <<>>
    /\ buffer = <<>>
    /\ writeIndex = 0
    /\ readIndex = 0
    /\ count = 0
    /\ call = [op |-> "none"]
    /\ writes = <<>>
    /\ reads = <<>>
    /\ lossy = FALSE
    /\ queued = <<>>

(***************************************************************************)
(* COBSDecoder                                                             *)
(***************************************************************************)

\* the inner for loop of decode, for (i = 1; i < code && inPos < inputLen; i++):
\* it asks for n = min(code - 1, inputLen - inPos) bytes, copies them in order to
\* output[outPos..], and returns 0 from decode at the first one for which
\* outPos >= outputMax (the bytes before it are already stored)
CopyRun(input, inputLen, output, outputMax, inPos, outPos, code) ==
    LET n      == Min(code - 1, inputLen - inPos)
        room   == outputMax - outPos
        copied == Min(n, room)
    IN  [overflow |-> n > room,
         output   |-> [k \in DOMAIN output |->
                          IF outPos <= k /\ k < outPos + copied
                          THEN input[inPos + (k - outPos)]
                          ELSE output[k]],
         inPos    |-> inPos + copied,
         outPos   |-> outPos + copied]

\* the while loop of decode
RECURSIVE DecodeLoop(_, _, _, _, _, _)
DecodeLoop(input, inputLen, output, outputMax, inPos, outPos) ==
    IF inPos < inputLen
    THEN LET code == input[inPos] IN
         IF code = 0
         THEN [len |-> outPos, output |-> output]
         ELSE LET c == CopyRun(input, inputLen, output, outputMax,
                               inPos + 1, outPos, code) IN
              IF c.overflow
              THEN [len |-> 0, output |-> c.output]
              ELSE IF code < 255 /\ c.inPos < inputLen
              THEN IF c.outPos >= outputMax
                   THEN [len |-> 0, output |-> c.output]
                   ELSE DecodeLoop(input, inputLen, [c.output EXCEPT ![c.outPos] = 0],
                                   outputMax, c.inPos, c.outPos + 1)
              ELSE DecodeLoop(input, inputLen, c.output, outputMax, c.inPos, c.outPos)
    ELSE [len |-> outPos, output |-> output]

\* mutant of DecodeLoop: a zero is inserted after a full run (code 0xFF) too
RECURSIVE DecodeLoopZeroAfterFullRun(_, _, _, _, _, _)
DecodeLoopZeroAfterFullRun(input, inputLen, output, outputMax, inPos, outPos) ==
    IF inPos < inputLen
    THEN LET code == input[inPos] IN
         IF code = 0
         THEN [len |-> outPos, output |-> output]
         ELSE LET c == CopyRun(input, inputLen, output, outputMax,
                               inPos + 1, outPos, code) IN
              IF c.overflow
              THEN [len |-> 0, output |-> c.output]
              ELSE IF c.inPos < inputLen
              THEN IF c.outPos >= outputMax
                   THEN [len |-> 0, output |-> c.output]
                   ELSE DecodeLoopZeroAfterFullRun(input, inputLen,
                                   [c.output EXCEPT ![c.outPos] = 0],
                                   outputMax, c.inPos, c.outPos + 1)
              ELSE DecodeLoopZeroAfterFullRun(input, inputLen, c.output, outputMax,
                                              c.inPos, c.outPos)
    ELSE [len |-> outPos, output |-> output]

decodeZeroAfterFullRun(input, inputLen, output, outputMax) ==
    IF inputLen = 0
    THEN [len |-> 0, output |-> output]
    ELSE DecodeLoopZeroAfterFullRun(input, inputLen, output, outputMax, 0, 0)

\* mutant of DecodeLoop: the zero between runs is also emitted after the last run
RECURSIVE DecodeLoopTrailingZero(_, _, _, _, _, _)
DecodeLoopTrailingZero(input, inputLen, output, outputMax, inPos, outPos) ==
    IF inPos < inputLen
    THEN LET code == input[inPos] IN
         IF code = 0
         THEN [len |-> outPos, output |-> output]
         ELSE LET c == CopyRun(input, inputLen, output, outputMax,
                               inPos + 1, outPos, code) IN
              IF c.overflow
              THEN [len |-> 0, output |-> c.output]
              ELSE IF code < 255
              THEN IF c.outPos >= outputMax
                   THEN [len |-> 0, output |-> c.output]
                   ELSE DecodeLoopTrailingZero(input, inputLen,
                                   [c.output EXCEPT ![c.outPos] = 0],
                                   outputMax, c.inPos, c.outPos + 1)
              ELSE DecodeLoopTrailingZero(input, inputLen, c.output, outputMax,
                                          c.inPos, c.outPos)
    ELSE [len |-> outPos, output |-> output]

decodeTrailingZero(input, inputLen, output, outputMax) ==
    IF inputLen = 0
    THEN [len |-> 0, output |-> output]
    ELSE DecodeLoopTrailingZero(input, inputLen, output, outputMax, 0, 0)

\* size_t decode(input, inputLen, output, outputMax): the decoded length (0 on
\* error) and the output buffer as the call leaves it
decode(input, inputLen, output, outputMax) ==
    IF inputLen = 0
    THEN [len |-> 0, output |-> output]
    ELSE DecodeLoop(input, inputLen, output, outputMax, 0, 0)

\* mutant of processByte: a byte is stored while framePos <= maxFrameSize
processByteStoreWhenFull(byte) ==
    IF byte = 0
    THEN LET d == decode(frameBuffer, framePos, decodeBuffer, maxFrameSize) IN
         IF framePos > 0 /\ d.len > 0
         THEN [ret |-> TRUE, frameBuffer |-> frameBuffer, framePos |-> 0,
               decodeBuffer |-> d.output, decodedLength |-> d.len]
         ELSE [ret |-> FALSE, frameBuffer |-> frameBuffer, framePos |-> 0,
               decodeBuffer |-> IF framePos > 0 THEN d.output ELSE decodeBuffer,
               decodedLength |-> decodedLength]
    ELSE IF framePos <= maxFrameSize
    THEN [ret |-> FALSE,
          frameBuffer |-> [k \in DOMAIN frameBuffer |->
                              IF k = framePos THEN byte ELSE frameBuffer[k]],
          framePos |-> framePos + 1,
          decodeBuffer |-> decodeBuffer, decodedLength |-> decodedLength]
    ELSE [ret |-> FALSE, frameBuffer |-> frameBuffer, framePos |-> 0,
          decodeBuffer |-> decodeBuffer, decodedLength |-> decodedLength]

\* mutant of processByte: a delimiter after a non-empty accumulation reports a
\* frame whatever decode returned
processByteReadyOnEmpty(byte) ==
    IF byte = 0
    THEN LET d == decode(frameBuffer, framePos, decodeBuffer, maxFrameSize) IN
         IF framePos > 0
         THEN [ret |-> TRUE, frameBuffer |-> frameBuffer, framePos |-> 0,
               decodeBuffer |-> d.output, decodedLength |-> d.len]
         ELSE [ret |-> FALSE, frameBuffer |-> frameBuffer, framePos |-> 0,
               decodeBuffer |-> decodeBuffer, decodedLength |-> decodedLength]
    ELSE IF framePos < maxFrameSize
    THEN [ret |-> FALSE, frameBuffer |-> [frameBuffer EXCEPT ![framePos] = byte],
          framePos |-> framePos + 1,
          decodeBuffer |-> decodeBuffer, decodedLength |-> decodedLength]
    ELSE [ret |-> FALSE, frameBuffer |-> frameBuffer, framePos |-> 0,
          decodeBuffer |-> decodeBuffer, decodedLength |-> decodedLength]

\* bool processByte(uint8_t byte): the return value and the decoder after the call
processByte(byte) ==
    IF byte = 0
    THEN LET d == decode(frameBuffer, framePos, decodeBuffer, maxFrameSize) IN
         IF framePos > 0 /\ d.len > 0
         THEN [ret |-> TRUE, frameBuffer |-> frameBuffer, framePos |-> 0,
               decodeBuffer |-> d.output, decodedLength |-> d.len]
         ELSE [ret |-> FALSE, frameBuffer |-> frameBuffer, framePos |-> 0,
               decodeBuffer |-> IF framePos > 0 THEN d.output ELSE decodeBuffer,
               decodedLength |-> decodedLength]
    ELSE IF framePos < maxFrameSize
    THEN [ret |-> FALSE, frameBuffer |-> [frameBuffer EXCEPT ![framePos] = byte],
          framePos |-> framePos + 1,
          decodeBuffer |-> decodeBuffer, decodedLength |-> decodedLength]
    ELSE [ret |-> FALSE, frameBuffer |-> frameBuffer, framePos |-> 0,
          decodeBuffer |-> decodeBuffer, decodedLength |-> decodedLength]

\* const uint8_t* getFrame() with size_t getFrameLength(): the exposed frame
getFrame == [i \in 1..decodedLength |-> decodeBuffer[i - 1]]

\* the decoder is not part of the specification
CobsUnused ==
    /\ maxFrameSize = 0
    /\ frameBuffer = <<>>
    /\ framePos = 0
    /\ decodeBuffer = <<>>
    /\ decodedLength = 0
    /\ wire = <<>>
    /\ msg = <<>>
    /\ phase = "none"
    /\ ready = FALSE
    /\ readyCount = 0

(***************************************************************************)
(* DDPProtocol                                                             *)
(***************************************************************************)

DDP_HEADER_SIZE == 10
DDP_MAX_PACKET_SIZE == 1440
DDP_FLAG_VER_MASK == 192
DDP_FLAG_VER1 == 64
DDP_FLAG_PUSH == 1
DDP_TYPE_RGB == 1

\* a & b
RECURSIVE BitAnd(_, _)
BitAnd(a, b) ==
    IF a = 0 \/ b = 0 THEN 0
    ELSE (a % 2) * (b % 2) + 2 * BitAnd(a \div 2, b \div 2)

\* DDPPacket packet; as update() declares it, before parsePacket fills it
NoPacket == [flags |-> 0, sequence |-> 0, dataType |-> 0, destId |-> 0,
             dataOffset |-> 0, dataLength |-> 0, data |-> -1]

\* mutant of isValid: the largest payload length is refused
isValidBelowMax(pkt) ==
    /\ BitAnd(pkt.flags, DDP_FLAG_VER_MASK) = DDP_FLAG_VER1
    /\ (pkt.dataType = 0 \/ pkt.dataType = DDP_TYPE_RGB)
    /\ pkt.dataLength > 0
    /\ pkt.dataLength < DDP_MAX_PACKET_SIZE

\* bool DDPPacket::isValid() const
isValid(pkt) ==
    /\ BitAnd(pkt.flags, DDP_FLAG_VER_MASK) = DDP_FLAG_VER1
    /\ (pkt.dataType = 0 \/ pkt.dataType = DDP_TYPE_RGB)
    /\ pkt.dataLength > 0
    /\ pkt.dataLength <= DDP_MAX_PACKET_SIZE

\* mutant of shouldPush: bit 1 of the flags is tested instead of bit 0
shouldPushBitOne(pkt) == BitAnd(pkt.flags, 2) # 0

\* bool DDPPacket::shouldPush() const
shouldPush(pkt) == BitAnd(pkt.flags, DDP_FLAG_PUSH) # 0

\* static bool parsePacket(const uint8_t* buffer, size_t length, DDPPacket& packet):
\* the return value and the packet as the call leaves it; data is the offset of
\* the pixel data in the buffer
parsePacket(buf, length, pkt) ==
    IF length < DDP_HEADER_SIZE
    THEN [ret |-> FALSE, packet |-> pkt]
    ELSE LET p == [flags      |-> buf[0],
                   sequence   |-> BitAnd(buf[1], 15),
                   dataType   |-> buf[2],
                   destId     |-> buf[3],
                   dataOffset |-> buf[4] * 16777216 + buf[5] * 65536
                                    + buf[6] * 256 + buf[7],
                   dataLength |-> buf[8] * 256 + buf[9],
                   data       |-> pkt.data]
         IN  IF ~isValid(p)
             THEN [ret |-> FALSE, packet |-> p]
             ELSE IF length < DDP_HEADER_SIZE + p.dataLength
             THEN [ret |-> FALSE, packet |-> p]
             ELSE [ret |-> TRUE, packet |-> [p EXCEPT !.data = 10]]

\* static uint16_t getPixelCount(const DDPPacket& packet)
getPixelCount(pkt) == pkt.dataLength \div 3

\* the parser is not part of the specification
ParseUnused ==
    /\ packetLen = 0
    /\ packet = NoPacket
    /\ parsed = "none"

(***************************************************************************)
(* BrightnessLimiter                                                       *)
(***************************************************************************)

\* the first loop of limitBrightness: uint16_t litCount, one more for every
\* pixel with r | g | b non-zero
LitCount(rgb, pixelCount) ==
    Cardinality({i \in 0..(pixelCount - 1) :
                    rgb[3 * i] # 0 \/ rgb[3 * i + 1] # 0 \/ rgb[3 * i + 2] # 0}) % 65536

\* mutant of BrightnessScale: the interpolation rounds up instead of down
BrightnessScaleRoundUp(litCount) ==
    IF litCount <= thresholdCount THEN maxScale
    ELSE IF litCount >= totalLEDs THEN minScale
    ELSE LET range     == (totalLEDs - thresholdCount) % 65536
             diff      == (litCount - thresholdCount) % 65536
             scaleDiff == (maxScale - minScale) % 65536
         IN  (maxScale - ((diff * scaleDiff + range - 1) \div range)) % 256

\* uint8_t scale, as limitBrightness selects it; range, diff and scaleDiff are
\* uint16_t, the product is an int, the result is cut to 8 bits
BrightnessScale(litCount) ==
    IF litCount <= thresholdCount THEN maxScale
    ELSE IF litCount >= totalLEDs THEN minScale
    ELSE LET range     == (totalLEDs - thresholdCount) % 65536
             diff      == (litCount - thresholdCount) % 65536
             scaleDiff == (maxScale - minScale) % 65536
         IN  (maxScale - ((diff * scaleDiff) \div range)) % 256

\* the second loop of limitBrightness: *r = (*r * scale) >> 8 for the three
\* channels of each pixel
ApplyScale(rgb, pixelCount, scale) ==
    [k \in DOMAIN rgb |->
        IF k < 3 * pixelCount THEN (rgb[k] * scale) \div 256 ELSE rgb[k]]

\* void limitBrightness(uint8_t* rgbData, size_t pixelCount): the array after the
\* call
limitBrightness(rgb, pixelCount) ==
    ApplyScale(rgb, pixelCount, BrightnessScale(LitCount(rgb, pixelCount)))

\* the limiter is not part of the specification
LimiterUnused ==
    /\ totalLEDs = 0
    /\ maxScale = 0
    /\ minScale = 0
    /\ thresholdCount = 0
    /\ rgbData = <<>>
    /\ rgbCount = 0
    /\ rgbBefore = <<>>
    /\ applied = 0

(***************************************************************************)
(* Orb and DDPController                                                   *)
(***************************************************************************)

\* void Orb::pixelSet(index, r, g, b): the strip after the call
pixelSet(strip, index, r, g, b) ==
    IF index < numLEDs THEN [strip EXCEPT ![index] = <<r, g, b>>] ELSE strip

\* the loop of applyPixelData: orb.pixelSet(startPixel + i, data[i*3], data[i*3+1],
\* data[i*3+2]) for i = from .. pixelCount-1; data starts at offset base of buf;
\* the strip after the loop and the calls made
RECURSIVE SetPixels(_, _, _, _, _, _, _)
SetPixels(strip, calls, buf, base, startPixel, i, pixelCount) ==
    IF i >= pixelCount THEN [pixels |-> strip, calls |-> calls]
    ELSE LET pixelIndex == (startPixel + i) % 65536
             r == buf[base + i * 3]
             g == buf[base + i * 3 + 1]
             b == buf[base + i * 3 + 2]
         IN  SetPixels(pixelSet(strip, pixelIndex, r, g, b),
                       Append(calls, <<pixelIndex, r, g, b>>),
                       buf, base, startPixel, i + 1, pixelCount)

\* limiter.limitBrightness((uint8_t*)packet.data, pixelCount) on the bytes of buf
\* from offset base on: buf after the call
LimitInPlace(buf, base, pixelCount) ==
    LET view    == [k \in 0..(3 * pixelCount - 1) |-> buf[base + k]]
        limited == limitBrightness(view, pixelCount)
    IN  [j \in DOMAIN buf |->
            IF j >= base /\ j < base + 3 * pixelCount THEN limited[j - base] ELSE buf[j]]

\* void applyPixelData(const DDPPacket& packet): packetData and the strip after
\* the call, and the orb.pixelSet calls made; pixelCount and startPixel are
\* uint16_t
applyPixelData(pkt, buf) ==
    LET pixelCount == getPixelCount(pkt) % 65536
        startPixel == (pkt.dataOffset \div 3) % 65536
    IN  IF startPixel >= numLEDs
        THEN [data |-> buf, pixels |-> pixels, calls |-> <<>>]
        ELSE LET clamped == IF startPixel + pixelCount > numLEDs
                            THEN numLEDs - startPixel
                            ELSE pixelCount
                 limited == LimitInPlace(buf, pkt.data, clamped)
                 set     == SetPixels(pixels, <<>>, limited, pkt.data, startPixel,
                                      0, clamped)
             IN  [data |-> limited, pixels |-> set.pixels, calls |-> set.calls]

\* no increment stored by either core
NoIncrements ==
    [f \in {"received", "processed", "dropped"} |-> [core0 |-> 0, core1 |-> 0]]

\* the two cores are not followed step by step
CoresUnused ==
    /\ mutex = "free"
    /\ pc0 = "none"
    /\ pc1 = "none"
    /\ reg0 = 0
    /\ reg1 = 0
    /\ incs = NoIncrements

\* the controller is not part of the specification
ControllerUnused ==
    /\ numLEDs = 0
    /\ pixels = <<>>
    /\ shows = 0
    /\ running = FALSE
    /\ packetsReceived = 0
    /\ packetsProcessed = 0
    /\ packetsDropped = 0
    /\ sent = 0
    /\ tick = [end |-> "none"]
    /\ CoresUnused

(***************************************************************************)
(* The sender's byte stuffing (the host-side bridge, not part of the       *)
(* firmware): a run length byte n stands for n-1 literal bytes followed by *)
(* an implied zero, except after a run of the maximum length 254 or at the *)
(* end of the frame.                                                       *)
(***************************************************************************)

\* the number of leading non-zero bytes of m, at most 254
RunLength(m) ==
    LET zeros == {i \in 1..Len(m) : m[i] = 0}
        first == IF zeros = {} THEN Len(m) + 1
                 ELSE CHOOSE i \in zeros : \A j \in zeros : i <= j
    IN  Min(254, first - 1)

RECURSIVE Encode(_)
Encode(m) ==
    LET r == RunLength(m) IN
    IF r = 254
    THEN <<255>> \o SubSeq(m, 1, 254)
            \o (IF Len(m) = 254 THEN <<>> ELSE Encode(SubSeq(m, 255, Len(m))))
    ELSE IF r = Len(m)
    THEN <<r + 1>> \o m
    ELSE <<r + 1>> \o SubSeq(m, 1, r) \o Encode(SubSeq(m, r + 2, Len(m)))

(***************************************************************************)
(* The decoder alone: a new COBSDecoder(maxFrameSize) receives a first     *)
(* frame (or none) and then the stuffed encoding of a message followed by  *)
(* the delimiter, one byte per processByte call.                           *)
(***************************************************************************)

\* the decoder's maxFrameSize in the decoder specification; above 255 so that
\* full runs (code 0xFF) fit
CobsFrameSize == 258

\* n bytes, none zero, that differ from their neighbours
NonZeroRun(n) == [i \in 1..n |-> 1 + (i % 7)]

\* all sequences of length n over S
RECURSIVE SeqsOfLen(_, _)
SeqsOfLen(S, n) ==
    IF n = 0 THEN {<<>>}
    ELSE {Append(q, b) : q \in SeqsOfLen(S, n - 1), b \in S}

\* the messages sent: every sequence over {0, 7, 255} of length 0..3, and long
\* ones around a full run of 254 non-zero bytes and around the frame capacity
CobsShortMessages == UNION {SeqsOfLen({0, 7, 255}, n) : n \in 0..3}

CobsLongMessages ==
    {NonZeroRun(n) : n \in {253, 254, 255}}
    \cup {NonZeroRun(n) : n \in (CobsFrameSize - 3)..CobsFrameSize}
    \cup {NonZeroRun(254) \o <<0>>, <<0>> \o NonZeroRun(254),
          NonZeroRun(253) \o <<0>> \o NonZeroRun(2),
          NonZeroRun(255) \o <<0>>}

CobsMessages == CobsShortMessages \cup CobsLongMessages

\* what the line carried before the message: nothing, a delimiter, a frame
CobsFirstFrames == {<<>>, <<0>>, Encode(<<7, 0, 9>>) \o <<0>>}

\* the arrays come from new uint8_t[maxFrameSize] and are not initialised
CobsGarbage == {0, 170}

\* everything but the decoder and the serial line
CobsRest == <<qvars, data, qobs, pvars, lvars, lobs, ovars, dvars, dobs, kvars, kobs>>

CobsInit ==
    /\ maxFrameSize = CobsFrameSize
    /\ \E g \in CobsGarbage :
          /\ frameBuffer = [i \in 0..(CobsFrameSize - 1) |-> g]
          /\ decodeBuffer = [i \in 0..(CobsFrameSize - 1) |-> g]
    /\ framePos = 0
    /\ decodedLength = 0
    /\ wire \in CobsFirstFrames
    /\ msg = <<>>
    /\ phase = "first"
    /\ ready = FALSE
    /\ readyCount = 0

\* the sender stuffs a message and puts it on the line with its delimiter
CobsSend ==
    /\ phase = "first"
    /\ wire = <<>>
    /\ \E m \in CobsMessages :
          /\ msg' = m
          /\ wire' = Encode(m) \o <<0>>
    /\ phase' = "message"
    /\ ready' = FALSE
    /\ readyCount' = 0
    /\ UNCHANGED <<cvars, CobsRest>>

\* bytes on the line that no stuffing encoder produced: runs of non-zero bytes
\* (128..227, neighbours different) up to and past the frame capacity, and short
\* frames whose run length byte claims more bytes than follow
HighRun(n) == [i \in 1..n |-> 128 + (i % 100)]

CobsRawFrames ==
    {HighRun(n) : n \in CobsFrameSize..(CobsFrameSize + 3)}
    \cup {<<1>>, <<1, 1>>, <<1, 1, 1>>, <<5, 7>>, <<255>>, <<255, 9, 9>>, <<3, 7, 4, 4>>}

\* such bytes arrive, closed by a delimiter
CobsSendRaw ==
    /\ phase = "first"
    /\ wire = <<>>
    /\ \E f \in CobsRawFrames :
          /\ msg' = f
          /\ wire' = f \o <<0>>
    /\ phase' = "raw"
    /\ ready' = FALSE
    /\ readyCount' = 0
    /\ UNCHANGED <<cvars, CobsRest>>

\* one iteration of the receive loop's inner while: Serial.read, processByte
CobsReceive ==
    /\ wire # <<>>
    /\ LET p == processByte(Head(wire)) IN
          /\ frameBuffer' = p.frameBuffer
          /\ framePos' = p.framePos
          /\ decodeBuffer' = p.decodeBuffer
          /\ decodedLength' = p.decodedLength
          /\ ready' = p.ret
          /\ readyCount' = readyCount + (IF p.ret THEN 1 ELSE 0)
    /\ wire' = Tail(wire)
    /\ UNCHANGED <<maxFrameSize, msg, phase, CobsRest>>

CobsNext == CobsSend \/ CobsSendRaw \/ CobsReceive

DecoderInit == CobsInit /\ QueueUnused /\ ParseUnused /\ LimiterUnused /\ ControllerUnused

SpecCobs == DecoderInit /\ [][CobsNext]_vars

(***************************************************************************)
(* Claims about the decoder                                                *)
(***************************************************************************)

\* the whole message and its delimiter have been received
CobsDelivered == phase = "message" /\ wire = <<>>

\* 'frame ready' was returned exactly once, by the call that received the
\* delimiter, and the exposed frame is the message
CobsRoundTrip == readyCount = 1 /\ ready /\ getFrame = msg

\* C5 as stated: for every message of length 0 up to the frame capacity, feeding
\* its stuffed encoding and one delimiter byte by byte yields 'frame ready'
\* exactly once, on the delimiter, with exactly the message exposed.
C5_RoundTripAnyLength ==
    /\ (phase = "message" /\ wire # <<>>) => readyCount = 0
    /\ (CobsDelivered /\ Len(msg) <= maxFrameSize) => CobsRoundTrip

\* C5 amended: the same for every message of at least one byte whose stuffed
\* encoding is at most frame capacity bytes long.
C5_RoundTrip ==
    /\ (phase = "message" /\ wire # <<>>) => readyCount = 0
    /\ (CobsDelivered /\ Len(msg) >= 1 /\ Len(Encode(msg)) <= maxFrameSize)
           => CobsRoundTrip

\* a message holding a full run of 254 non-zero bytes, more bytes and a zero was
\* delivered
C5_Witness ==
    /\ CobsDelivered
    /\ Len(msg) > 254
    /\ \E i \in 1..Len(msg) : msg[i] = 0
    /\ Len(Encode(msg)) <= maxFrameSize
    /\ readyCount = 1

(***************************************************************************)
(* The parser alone: parsePacket applied to the bytes update() has read    *)
(* into packetData.                                                        *)
(***************************************************************************)

\* sizeof(packetData)
PACKET_DATA_SIZE == 2048

ParseFlags == {0, 64, 65, 127, 128, 193}
ParseTypes == {0, 1, 2, 255}
ParseDataLengths == {0, 1, 9, 1439, 1440, 1441, 1500, 65535}

\* the buffer lengths tried for a declared payload length
ParseLengths(dl) ==
    {0, 9, 10, 18, 19, 20, 10 + dl - 1, 10 + dl, 10 + dl + 1, PACKET_DATA_SIZE}
        \cap 0..PACKET_DATA_SIZE

\* packetData holding a header, payload bytes up to the length read, and what the
\* stack held beyond it
ParseSample(flags, type, dl, length) ==
    [i \in 0..(PACKET_DATA_SIZE - 1) |->
        IF i >= length THEN 170
        ELSE IF i = 0 THEN flags
        ELSE IF i = 1 THEN 3
        ELSE IF i = 2 THEN type
        ELSE IF i = 3 THEN 1
        ELSE IF i \in 4..7 THEN 0
        ELSE IF i = 8 THEN dl \div 256
        ELSE IF i = 9 THEN dl % 256
        ELSE 5]

\* everything but update()'s locals
ParseRest == <<qvars, qobs, cvars, cobs, lvars, lobs, ovars, dvars, dobs, kvars, kobs>>

ParseInit ==
    /\ \E flags \in ParseFlags, type \in ParseTypes, dl \in ParseDataLengths :
          \E length \in ParseLengths(dl) :
              /\ data = ParseSample(flags, type, dl, length)
              /\ packetLen = length
    /\ packet = NoPacket
    /\ parsed = "none"
    /\ QueueUnusedButData
    /\ CobsUnused
    /\ LimiterUnused
    /\ ControllerUnused

\* DDPProtocol::parsePacket(packetData, packetLen, packet)
ParsePacket ==
    /\ parsed = "none"
    /\ LET r == parsePacket(data, packetLen, packet) IN
          /\ packet' = r.packet
          /\ parsed' = IF r.ret THEN "accepted" ELSE "rejected"
    /\ UNCHANGED <<data, packetLen, ParseRest>>

SpecParse == ParseInit /\ [][ParsePacket]_vars

\* the big-endian payload length in bytes 8-9 of packetData
DeclaredLength == data[8] * 256 + data[9]

\* C6: parsePacket succeeds if and only if length >= 10, bits 7-6 of byte 0 are
\* 01, byte 2 is 0x00 or 0x01, the payload length in bytes 8-9 is in 1..1440 and
\* length >= 10 + payload length; version 01, type 0x01, payload length 9 and
\* length 19 succeed with pixel count 3, payload length 0 or 1500 fails, and a
\* buffer shorter than 10 bytes fails.
C6_ParseIff ==
    parsed # "none" =>
        /\ parsed = "accepted" <=> /\ packetLen >= 10
                                   /\ (data[0] \div 64) % 4 = 1
                                   /\ data[2] \in {0, 1}
                                   /\ DeclaredLength \in 1..1440
                                   /\ packetLen >= 10 + DeclaredLength
        /\ (packetLen = 19 /\ (data[0] \div 64) % 4 = 1 /\ data[2] = 1
                /\ DeclaredLength = 9)
              => (parsed = "accepted" /\ getPixelCount(packet) = 3)
        /\ (packetLen >= 10 /\ DeclaredLength \in {0, 1500}) => parsed = "rejected"
        /\ packetLen < 10 => parsed = "rejected"

\* the largest payload, 1440 bytes in a buffer of exactly 1450, was accepted
C6_Witness ==
    /\ parsed = "accepted"
    /\ packetLen = 1450
    /\ packet.dataLength = 1440

(***************************************************************************)
(* The limiter alone: limitBrightness applied, in place and repeatedly, to *)
(* pixel data of which a chosen number of pixels is lit.                   *)
(***************************************************************************)

\* calls of limitBrightness on the same data
LimMaxCalls == 2

\* strip lengths: below the threshold, a channel of main.cpp, Orb's default
LimTotalLEDs == {3, 50, 100}

\* (maxBrightness, minBrightness, threshold): the constructor's defaults and
\* another setting
LimSettings == {<<255, 102, 4>>, <<200, 50, 10>>}

LimPixelCounts == {0, 1, 5, 52, 100, 104}

LimColors == {<<255, 0, 0>>, <<1, 2, 3>>, <<0, 0, 128>>}

\* n pixels of which lit have the colour c, at the front or at the back
LimSample(n, lit, c, front) ==
    [k \in 0..(3 * n - 1) |->
        LET i == k \div 3 IN
        IF (front /\ i < lit) \/ (~front /\ i >= n - lit) THEN c[(k % 3) + 1] ELSE 0]

\* everything but the limiter and its pixel data
LimRest == <<qvars, data, qobs, cvars, cobs, pvars, ovars, dvars, dobs, kvars, kobs>>

LimInit ==
    /\ totalLEDs \in LimTotalLEDs
    /\ \E st \in LimSettings :
          /\ maxScale = st[1]
          /\ minScale = st[2]
          /\ thresholdCount = st[3]
    /\ \E n \in LimPixelCounts, c \in LimColors, front \in BOOLEAN :
          \E lit \in 0..n :
              /\ rgbData = LimSample(n, lit, c, front)
              /\ rgbBefore = rgbData
              /\ rgbCount = n
    /\ applied = 0
    /\ QueueUnused
    /\ CobsUnused
    /\ ParseUnused
    /\ ControllerUnused

\* limiter.limitBrightness(rgbData, rgbCount)
LimitBrightness ==
    /\ applied < LimMaxCalls
    /\ rgbData' = limitBrightness(rgbData, rgbCount)
    /\ applied' = applied + 1
    /\ UNCHANGED <<lvars, rgbCount, rgbBefore, LimRest>>

SpecLimiter == LimInit /\ [][LimitBrightness]_vars

\* the number of pixels with a non-zero channel in the data before the first call
LitBefore ==
    Cardinality({i \in 0..(rgbCount - 1) :
        \E ch \in 0..2 : rgbBefore[3 * i + ch] > 0})

\* the scale the specification gives for a lit count
ExpectedScale(lit) ==
    IF lit <= thresholdCount THEN maxScale
    ELSE IF lit >= totalLEDs THEN minScale
    ELSE maxScale
            - ((lit - thresholdCount) * (maxScale - minScale))
                  \div (totalLEDs - thresholdCount)

\* C7: after one call every channel of every pixel is floor(channel * scale / 256)
\* with scale = maxScale when lit <= threshold, minScale when lit >= totalLEDs,
\* else maxScale - floor((lit - threshold) * (maxScale - minScale) / (totalLEDs -
\* threshold)); for totalLEDs 100, threshold 4, maxScale 255, minScale 102 the
\* scale is 255 at lit 4, 102 at lit 100 and 179 at lit 52.
C7_ScaleSelection ==
    applied = 1 =>
        LET lit   == LitBefore
            scale == ExpectedScale(lit)
        IN  /\ \A k \in 0..(3 * rgbCount - 1) :
                  rgbData[k] = (rgbBefore[k] * scale) \div 256
            /\ (totalLEDs = 100 /\ thresholdCount = 4 /\ maxScale = 255
                    /\ minScale = 102)
                  => \A k \in 0..(3 * rgbCount - 1) :
                        /\ lit = 4 => rgbData[k] = (rgbBefore[k] * 255) \div 256
                        /\ lit = 52 => rgbData[k] = (rgbBefore[k] * 179) \div 256
                        /\ lit = 100 => rgbData[k] = (rgbBefore[k] * 102) \div 256

\* 52 of 100 LEDs lit under the default settings, scaled once
C7_Witness ==
    /\ applied = 1
    /\ totalLEDs = 100 /\ thresholdCount = 4 /\ maxScale = 255 /\ minScale = 102
    /\ LitBefore = 52
    /\ \E k \in 0..(3 * rgbCount - 1) : rgbBefore[k] = 255 /\ rgbData[k] = 178

\* C8: at full scale (lit <= threshold, maxScale = 255) limitBrightness leaves
\* every channel of every pixel unchanged, so applying it twice gives the same
\* pixels as applying it once.
C8_FullScaleIdentity ==
    (applied >= 1 /\ maxScale = 255 /\ LitBefore <= thresholdCount) =>
        rgbData = rgbBefore

(***************************************************************************)
(* The queue alone: one producer calling write, one consumer calling read, *)
(* each call atomic under bufferMutex.                                     *)
(***************************************************************************)

\* capacity of the ring in the queue specification
QueueSize == 6
\* successful writes in one behaviour
MaxWrites == 3

\* a payload of the given length whose bytes are all different; t numbers the
\* payloads, so that no two successful writes carry the same bytes
QPayload(len, t) == [i \in 1..len |-> 16 * t + i]

\* the lengths offered to write: empty, fitting, too long for the free space,
\* longer than the ring
QLengths == 0..(QueueSize + 1)

\* the read limits offered to read
QMaxLengths == {0, 1, QueueSize}

QSnapshot == [buffer |-> buffer, writeIndex |-> writeIndex, readIndex |-> readIndex,
              count |-> count, data |-> data]

\* everything but the queue and its caller's buffer
QueueRest == <<cvars, cobs, pvars, lvars, lobs, ovars, dvars, dobs, kvars, kobs>>

QInit ==
    /\ buffer = [i \in 0..(QueueSize - 1) |-> 0]
    /\ writeIndex = 0
    /\ readIndex = 0
    /\ count = 0
    /\ data = [i \in 0..(QueueSize - 1) |-> 0]
    /\ call = [op |-> "none"]
    /\ writes = <<>>
    /\ reads = <<>>
    /\ lossy = FALSE
    /\ queued = <<>>

QWrite ==
    \E len \in QLengths :
        LET d == QPayload(len, Len(writes) + 1)
            w == write(d)
        IN
        /\ Len(writes) < MaxWrites
        /\ buffer' = w.buffer
        /\ writeIndex' = w.writeIndex
        /\ count' = w.count
        /\ call' = [op |-> "write", length |-> Len(d), ret |-> w.ret, pre |-> QSnapshot]
        /\ writes' = IF w.ret THEN Append(writes, d) ELSE writes
        /\ queued' = IF w.ret THEN Append(queued, d) ELSE queued
        /\ UNCHANGED <<readIndex, data, reads, lossy, QueueRest>>

QRead ==
    \E maxLength \in QMaxLengths :
        LET r == read(data, maxLength) IN
        /\ data' = r.data
        /\ readIndex' = r.readIndex
        /\ count' = r.count
        /\ call' = [op |-> "read", maxLength |-> maxLength, ret |-> r.ret,
                    pre |-> QSnapshot]
        /\ reads' = IF r.ret > 0
                    THEN Append(reads, [i \in 1..r.ret |-> r.data[i - 1]])
                    ELSE reads
        \* a read whose limit is below the length of the oldest entry not yet read
        /\ lossy' = (lossy \/ (Len(reads) < Len(writes)
                                /\ maxLength < Len(writes[Len(reads) + 1])))
        \* a read that returns an entry takes the oldest one; a read that returns
        \* 0 although data was available has discarded everything queued
        /\ queued' = IF r.ret > 0 THEN Tail(queued)
                      ELSE IF available THEN <<>>
                      ELSE queued
        /\ UNCHANGED <<buffer, writeIndex, writes, QueueRest>>

QClear ==
    \E c \in {clear} :
        /\ writeIndex' = c.writeIndex
        /\ readIndex' = c.readIndex
        /\ count' = c.count
        /\ call' = [op |-> "clear", pre |-> QSnapshot]
        \* entries that were queued are gone
        /\ lossy' = (lossy \/ queued # <<>>)
        /\ queued' = <<>>
        /\ UNCHANGED <<buffer, data, writes, reads, QueueRest>>

QNext == QWrite \/ QRead \/ QClear

QueueInit == QInit /\ CobsUnused /\ ParseUnused /\ LimiterUnused /\ ControllerUnused

SpecQueue == QueueInit /\ [][QNext]_vars

(***************************************************************************)
(* Claims about the queue                                                  *)
(***************************************************************************)

\* C1: as long as every read was given a limit of at least the length of the
\* oldest unread entry (and no clear() threw entries away), the k-th successful
\* read returned exactly the length and the bytes of the k-th successful write,
\* wrapped entries and headers included.
C1_Fifo ==
    ~lossy =>
        /\ Len(reads) <= Len(writes)
        /\ \A k \in 1..Len(reads) : reads[k] = writes[k]

\* a second entry has just been read whose 2-byte header wrapped around the end
C1_Witness ==
    /\ ~lossy
    /\ Len(reads) >= 2
    /\ call.op = "read"
    /\ call.ret >= 2
    /\ call.pre.readIndex = BUFFER_SIZE - 1

\* C2: write returns false and leaves both indices, the used count and every byte
\* unchanged when the payload is empty, longer than the capacity, or length + 2
\* exceeds the free space; otherwise it returns true and the used count grows by
\* exactly length + 2.
C2_WriteEffect ==
    call.op = "write" =>
        LET length   == call.length
            rejected == \/ length = 0
                        \/ length > BUFFER_SIZE
                        \/ length + 2 > BUFFER_SIZE - call.pre.count
        IN  /\ rejected => (call.ret = FALSE /\ QSnapshot = call.pre)
            /\ ~rejected => (call.ret = TRUE /\ count = call.pre.count + length + 2)

\* a payload that fits the ring was refused because entries are queued
C2_Witness ==
    /\ call.op = "write"
    /\ call.ret = FALSE
    /\ call.length \in 1..(BUFFER_SIZE - 2)
    /\ call.pre.count > 0

\* C3: read on a queue holding fewer than 2 bytes returns 0 and leaves the read
\* index, the write index, the used count and the caller's buffer unchanged.
C3_ReadEmpty ==
    (call.op = "read" /\ call.pre.count < 2) =>
        (call.ret = 0 /\ QSnapshot = call.pre)

\* read was called on a queue that had been filled and drained before
C3_Witness ==
    /\ call.op = "read"
    /\ call.pre.count < 2
    /\ Len(reads) > 0

\* the length header at the head of the queue before the last call
QHeadLength ==
    call.pre.buffer[call.pre.readIndex] * 256
        + call.pre.buffer[(call.pre.readIndex + 1) % BUFFER_SIZE]

\* C4: read with at least 2 bytes queued: when the header at the head is zero,
\* above maxLength or above the queued bytes minus the header, read returns 0 and
\* the queue is reset (read index = write index, used count 0, available false,
\* everything queued behind the head gone); otherwise it copies exactly the
\* declared number of bytes and the used count drops by that length + 2.
C4_ReadEffect ==
    (call.op = "read" /\ call.pre.count >= 2) =>
        LET length == QHeadLength
            bad    == \/ length = 0
                      \/ length > call.maxLength
                      \/ length > call.pre.count - 2
        IN  /\ bad => /\ call.ret = 0
                       /\ readIndex = writeIndex
                       /\ writeIndex = call.pre.writeIndex
                       /\ count = 0
                       /\ ~available
                       /\ read(data, BUFFER_SIZE).ret = 0
            /\ ~bad => /\ call.ret = length
                        /\ count = call.pre.count - (length + 2)
                        /\ \A i \in 0..(length - 1) :
                               data[i] = call.pre.buffer[(call.pre.readIndex + 2 + i)
                                                           % BUFFER_SIZE]
                        /\ \A j \in length..(BUFFER_SIZE - 1) :
                               data[j] = call.pre.data[j]

\* a read was refused for its limit while a second entry was queued behind the head
C4_Witness ==
    /\ call.op = "read"
    /\ call.pre.count > QHeadLength + 2
    /\ QHeadLength > call.maxLength
    /\ count = 0

\* the bytes the entries of q take in the ring: 2 + length each
RECURSIVE RingBytes(_)
RingBytes(q) == IF q = <<>> THEN 0 ELSE 2 + Len(Head(q)) + RingBytes(Tail(q))

\* C23: between calls of write, read and clear (the lock is free), the used count
\* is in 0..capacity, both indices are in 0..capacity - 1, the write index is
\* (read index + used count) mod capacity, the used count is the sum of
\* 2 + length over the entries written and neither read nor discarded (so it is
\* never 1 or 2), and the two bytes at the read index are the big-endian length
\* of the oldest such entry.
C23_RingConsistency ==
    /\ count \in 0..BUFFER_SIZE
    /\ readIndex \in 0..(BUFFER_SIZE - 1)
    /\ writeIndex \in 0..(BUFFER_SIZE - 1)
    /\ writeIndex = (readIndex + count) % BUFFER_SIZE
    /\ count = RingBytes(queued)
    /\ count \notin {1, 2}
    /\ queued # <<>> =>
          <<buffer[readIndex], buffer[(readIndex + 1) % BUFFER_SIZE]>>
              = LengthHeader(Len(queued[1]))

\* after entries were discarded and an entry was read, an entry is queued whose
\* header starts in the last slot of the ring
C23_Witness ==
    /\ queued # <<>>
    /\ readIndex = BUFFER_SIZE - 1
    /\ lossy
    /\ reads # <<>>

(***************************************************************************)
(* The controller: the host's frames on the serial line, the receiver of   *)
(* core 1 and update() on core 0                                           *)
(***************************************************************************)

\* frames the host sends in one behaviour
MaxFrames == 2
\* the size of the decoder's buffers and of packetData
RenderFrameSize == 24
\* the size of the ring: one frame of three pixels fits, two do not
RenderQueueSize == 41

\* the strip length of main.cpp's channels 2 to 8
RenderStripLengths == {50}

\* a DDP packet as the host lays it out: flags, sequence, type, destination,
\* 4 bytes of offset and 2 of length, big-endian, then the payload
MakePacket(flags, offset, payload) ==
    <<flags, 1, DDP_TYPE_RGB, 1,
      (offset \div 16777216) % 256, (offset \div 65536) % 256,
      (offset \div 256) % 256, offset % 256,
      (Len(payload) \div 256) % 256, Len(payload) % 256>> \o payload

\* with and without the push flag
RenderFlags == {DDP_FLAG_VER1, DDP_FLAG_VER1 + DDP_FLAG_PUSH}

\* byte offsets: the first pixel, the last pixel of the strip, the first pixel
\* past it, and an offset whose pixel index needs 17 bits
RenderOffsets == {0, 147, 150, 3 * 65536}

\* three pixels, one of them dark
RenderPayloads == {<<10, 20, 30, 0, 0, 0, 255, 255, 255>>}

\* the destination ids of main.cpp's channel table
ConfiguredDestIds == 1..8

\* a packet for a destination id outside the channel table, a packet of protocol
\* version 0, and a frame shorter than the header
RenderOddPackets ==
    {[MakePacket(DDP_FLAG_VER1 + DDP_FLAG_PUSH, 0, <<10, 20, 30>>) EXCEPT ![4] = 9],
     MakePacket(DDP_FLAG_PUSH, 0, <<10, 20, 30>>),
     <<DDP_FLAG_VER1 + DDP_FLAG_PUSH, 1, DDP_TYPE_RGB>>}

RenderPackets ==
    {MakePacket(f, o, p) : f \in RenderFlags, o \in RenderOffsets, p \in RenderPayloads}
        \cup RenderOddPackets

\* everything the controller does not touch
RenderRest == <<qobs, phase, lobs, kvars, kobs>>

\* the state the constructors leave: Orb(preset, numLEDs, pin) and
\* DDPController(orb); the arrays hold whatever the memory held
RenderInit ==
    /\ numLEDs \in RenderStripLengths
    /\ pixels = [i \in 0..(numLEDs - 1) |-> <<0, 0, 0>>]
    /\ shows = 0
    /\ totalLEDs = numLEDs
    /\ maxScale = 255
    /\ minScale = 102
    /\ thresholdCount = 4
    /\ maxFrameSize = RenderFrameSize
    /\ \E g \in CobsGarbage :
          /\ frameBuffer = [i \in 0..(RenderFrameSize - 1) |-> g]
          /\ decodeBuffer = [i \in 0..(RenderFrameSize - 1) |-> g]
          /\ data = [i \in 0..(RenderFrameSize - 1) |-> g]
          /\ buffer = [i \in 0..(RenderQueueSize - 1) |-> g]
    /\ framePos = 0
    /\ decodedLength = 0
    /\ writeIndex = 0
    /\ readIndex = 0
    /\ count = 0
    /\ running = FALSE
    /\ packetsReceived = 0
    /\ packetsProcessed = 0
    /\ packetsDropped = 0
    /\ wire = <<>>
    /\ msg = <<>>
    /\ ready = FALSE
    /\ readyCount = 0
    /\ sent = 0
    /\ tick = [end |-> "none"]
    /\ phase = "none"
    /\ call = [op |-> "none"]
    /\ writes = <<>>
    /\ reads = <<>>
    /\ lossy = FALSE
    /\ queued = <<>>
    /\ rgbData = <<>>
    /\ rgbCount = 0
    /\ rgbBefore = <<>>
    /\ applied = 0
    /\ ParseUnused
    /\ CoresUnused

\* void begin(): buffer.clear(), the counters, running, and core 1 launched
Begin ==
    /\ ~running
    /\ sent = 0
    /\ writeIndex' = 0
    /\ readIndex' = 0
    /\ count' = 0
    /\ packetsReceived' = 0
    /\ packetsProcessed' = 0
    /\ packetsDropped' = 0
    /\ running' = TRUE
    /\ UNCHANGED <<buffer, data, cvars, cobs, pvars, lvars, ovars, dobs, qobs, lobs,
                   kvars, kobs>>

\* the host puts one stuffed frame and its delimiter on the serial line
HostSend ==
    /\ running
    /\ sent < MaxFrames
    /\ wire = <<>>
    /\ \E m \in RenderPackets :
          /\ msg' = m
          /\ wire' = Encode(m) \o <<0>>
    /\ sent' = sent + 1
    /\ UNCHANGED <<qvars, data, cvars, ready, readyCount, pvars, lvars, ovars, dvars,
                   tick, RenderRest>>

\* mutant of Core1Receive: the result of buffer.write is ignored and every frame
\* is counted as received
Core1ReceiveCountsAll ==
    /\ running
    /\ wire # <<>>
    /\ \E p \in {processByte(Head(wire))} :
          /\ frameBuffer' = p.frameBuffer
          /\ framePos' = p.framePos
          /\ decodeBuffer' = p.decodeBuffer
          /\ decodedLength' = p.decodedLength
          /\ ready' = p.ret
          /\ readyCount' = readyCount + (IF p.ret THEN 1 ELSE 0)
          /\ IF p.ret
             THEN LET frame == [i \in 1..p.decodedLength |-> p.decodeBuffer[i - 1]]
                      w     == write(frame)
                  IN  /\ buffer' = w.buffer
                      /\ writeIndex' = w.writeIndex
                      /\ count' = w.count
                      /\ packetsReceived' = packetsReceived + 1
                      /\ packetsDropped' = packetsDropped
             ELSE UNCHANGED <<buffer, writeIndex, count, packetsReceived,
                              packetsDropped>>
    /\ wire' = Tail(wire)
    /\ UNCHANGED <<readIndex, data, maxFrameSize, msg, pvars, lvars, ovars, running,
                   packetsProcessed, sent, tick, RenderRest>>

\* one pass of the inner loop of core1Loop(): Serial.read(), processByte, and a
\* completed frame written to the ring and counted
Core1Receive ==
    /\ running
    /\ wire # <<>>
    /\ \E p \in {processByte(Head(wire))} :
          /\ frameBuffer' = p.frameBuffer
          /\ framePos' = p.framePos
          /\ decodeBuffer' = p.decodeBuffer
          /\ decodedLength' = p.decodedLength
          /\ ready' = p.ret
          /\ readyCount' = readyCount + (IF p.ret THEN 1 ELSE 0)
          /\ IF p.ret
             THEN LET frame == [i \in 1..p.decodedLength |-> p.decodeBuffer[i - 1]]
                      w     == write(frame)
                  IN  /\ buffer' = w.buffer
                      /\ writeIndex' = w.writeIndex
                      /\ count' = w.count
                      /\ packetsReceived' =
                            IF w.ret THEN packetsReceived + 1
                            ELSE packetsReceived
                      /\ packetsDropped' =
                            IF w.ret THEN packetsDropped
                            ELSE packetsDropped + 1
             ELSE UNCHANGED <<buffer, writeIndex, count, packetsReceived,
                              packetsDropped>>
    /\ wire' = Tail(wire)
    /\ UNCHANGED <<readIndex, data, maxFrameSize, msg, pvars, lvars, ovars, running,
                   packetsProcessed, sent, tick, RenderRest>>

\* mutant of Update: a parse failure returns without counting the packet as dropped
UpdateDropUncounted ==
    /\ running
    /\ IF ~available
       THEN /\ tick' = [end |-> "empty", calls |-> <<>>, shows |-> 0]
            /\ UNCHANGED <<qvars, data, pvars, ovars, dvars>>
       ELSE \E r \in {read(data, Cardinality(DOMAIN data))} :
            /\ readIndex' = r.readIndex
            /\ count' = r.count
            /\ UNCHANGED <<buffer, writeIndex>>
            /\ IF r.ret = 0
               THEN /\ tick' = [end |-> "unread", calls |-> <<>>, shows |-> 0]
                    /\ data' = r.data
                    /\ UNCHANGED <<pvars, ovars, dvars>>
               ELSE \E p \in {parsePacket(r.data, r.ret, NoPacket)} :
                    /\ packetLen' = r.ret
                    /\ packet' = p.packet
                    /\ IF ~p.ret
                       THEN /\ parsed' = "rejected"
                            /\ packetsDropped' = packetsDropped
                            /\ tick' = [end |-> "dropped", calls |-> <<>>, shows |-> 0]
                            /\ data' = r.data
                            /\ UNCHANGED <<ovars, running, packetsReceived,
                                           packetsProcessed>>
                       ELSE \E a \in {applyPixelData(p.packet, r.data)},
                               n \in {IF shouldPush(p.packet) THEN 1 ELSE 0} :
                            /\ parsed' = "accepted"
                            /\ packetsProcessed' = packetsProcessed + 1
                            /\ data' = a.data
                            /\ pixels' = a.pixels
                            /\ shows' = shows + n
                            /\ tick' = [end |-> "processed", calls |-> a.calls,
                                        shows |-> n]
                            /\ UNCHANGED <<numLEDs, running, packetsReceived,
                                           packetsDropped>>
    /\ UNCHANGED <<cvars, cobs, lvars, sent, qobs, lobs, kvars, kobs>>

\* void update(): one render tick, from buffer.available() to orb.pixelsShow()
Update ==
    /\ running
    /\ IF ~available
       THEN /\ tick' = [end |-> "empty", calls |-> <<>>, shows |-> 0]
            /\ UNCHANGED <<qvars, data, pvars, ovars, dvars>>
       ELSE \E r \in {read(data, Cardinality(DOMAIN data))} :
            /\ readIndex' = r.readIndex
            /\ count' = r.count
            /\ UNCHANGED <<buffer, writeIndex>>
            /\ IF r.ret = 0
               THEN /\ tick' = [end |-> "unread", calls |-> <<>>, shows |-> 0]
                    /\ data' = r.data
                    /\ UNCHANGED <<pvars, ovars, dvars>>
               ELSE \E p \in {parsePacket(r.data, r.ret, NoPacket)} :
                    /\ packetLen' = r.ret
                    /\ packet' = p.packet
                    /\ IF ~p.ret
                       THEN /\ parsed' = "rejected"
                            /\ packetsDropped' = packetsDropped + 1
                            /\ tick' = [end |-> "dropped", calls |-> <<>>, shows |-> 0]
                            /\ data' = r.data
                            /\ UNCHANGED <<ovars, running, packetsReceived,
                                           packetsProcessed>>
                       ELSE \E a \in {applyPixelData(p.packet, r.data)},
                               n \in {IF shouldPush(p.packet) THEN 1 ELSE 0} :
                            /\ parsed' = "accepted"
                            /\ packetsProcessed' = packetsProcessed + 1
                            /\ data' = a.data
                            /\ pixels' = a.pixels
                            /\ shows' = shows + n
                            /\ tick' = [end |-> "processed", calls |-> a.calls,
                                        shows |-> n]
                            /\ UNCHANGED <<numLEDs, running, packetsReceived,
                                           packetsDropped>>
    /\ UNCHANGED <<cvars, cobs, lvars, sent, qobs, lobs, kvars, kobs>>

RenderNext == Begin \/ HostSend \/ Core1Receive \/ Update

SpecRender == RenderInit /\ [][RenderNext]_vars

(***************************************************************************)
(* Claims about the render tick                                            *)
(***************************************************************************)

\* the pixel index a packet starts at: the byte offset divided by three
StartPixelOf(pkt) == pkt.dataOffset \div 3

\* the indices of the orb.pixelSet calls of the last update()
TickIndices == {tick.calls[k][1] : k \in 1..Len(tick.calls)}

\* C9: for a valid packet whose start pixel is floor(offset / 3), on a strip of
\* numLEDs pixels, every pixelSet call of the render tick has an index i with
\* startPixel <= i < numLEDs, and the tick makes min(pixelCount, numLEDs -
\* startPixel) calls, none if that is not positive.
C9_Clamping ==
    tick.end = "processed" =>
        LET startPixel == StartPixelOf(packet)
            wanted     == Min(getPixelCount(packet), numLEDs - startPixel)
        IN  /\ \A i \in TickIndices : startPixel <= i /\ i < numLEDs
            /\ Len(tick.calls) = IF wanted > 0 THEN wanted ELSE 0

\* C10: for a valid packet whose start pixel is at or past the end of the strip,
\* the render tick makes no pixelSet call and no pixelsShow call, push flag or
\* not.
C10_OutOfRangeNoOutput ==
    (tick.end = "processed" /\ StartPixelOf(packet) >= numLEDs) =>
        (tick.calls = <<>> /\ tick.shows = 0)

\* a step in which update() took a frame from the queue and parsed it
TickRead == count' < count /\ tick'.end \in {"processed", "dropped"}

\* C11: a render tick that reads a validly parsed packet whose destination id has
\* no configured channel makes no pixelSet and no pixelsShow call, leaves the
\* processed counter alone and adds one to the dropped counter.
C11_UnknownDestinationDropped ==
    [][(TickRead /\ parsed' = "accepted" /\ packet'.destId \notin ConfiguredDestIds)
          => /\ tick'.calls = <<>>
             /\ tick'.shows = 0
             /\ pixels' = pixels
             /\ shows' = shows
             /\ packetsProcessed' = packetsProcessed
             /\ packetsDropped' = packetsDropped + 1]_vars

\* the frame the host sent last, as a buffer indexed from 0
MsgBuffer == [i \in 0..(Len(msg) - 1) |-> msg[i + 1]]

\* the frame the host sent last carries a valid packet for a configured
\* destination whose start pixel lies on the strip
MsgValidInRange ==
    LET p == parsePacket(MsgBuffer, Len(msg), NoPacket) IN
    /\ p.ret
    /\ p.packet.destId \in ConfiguredDestIds
    /\ StartPixelOf(p.packet) < numLEDs

\* bit 0 of the flags byte of the frame the host sent last
MsgPushBit == msg[1] % 2

\* C12: from an empty queue, once one well-formed stuffed frame carrying a valid
\* in-range packet has been fed byte by byte to the receive path, the frame waits
\* in the queue with no pixelsShow call made, and the render tick that takes it
\* makes exactly one pixelsShow call if bit 0 of the flags is set and none if it is
\* clear.
C12_EndToEndPush ==
    (sent = 1 /\ wire = <<>> /\ MsgValidInRange) =>
        IF packetsProcessed = 0
        THEN available /\ packetsReceived = 1 /\ shows = 0
        ELSE /\ packetsProcessed = 1
             /\ ~available
             /\ shows = MsgPushBit
             /\ tick.end = "processed" => tick.shows = MsgPushBit

C12_Witness ==
    /\ sent = 1
    /\ wire = <<>>
    /\ MsgValidInRange
    /\ MsgPushBit = 1
    /\ tick.end = "processed"
    /\ tick.shows = 1
    /\ shows = 1

\* the length header of the oldest entry of the queue
HeadLength == buffer[readIndex] * 256 + buffer[(readIndex + 1) % BUFFER_SIZE]

\* the oldest entry of the queue
HeadFrame == [i \in 0..(HeadLength - 1) |-> buffer[(readIndex + 2 + i) % BUFFER_SIZE]]

C19_StartPixelExact ==
    tick.end = "processed" =>
        /\ tick.calls # <<>> => tick.calls[1][1] = StartPixelOf(packet)
        /\ StartPixelOf(packet) >= numLEDs => tick.calls = <<>>

\* a step in which core1Loop takes one byte from the serial line
ReceiveStep == wire # <<>> /\ wire' = Tail(wire)

C20_DelimiterHandling ==
    [][ReceiveStep =>
          LET byte == Head(wire) IN
          /\ ready' <=> /\ byte = 0
                        /\ framePos > 0
                        /\ decode(frameBuffer, framePos, decodeBuffer, maxFrameSize).len > 0
          /\ byte = 0 => framePos' = 0
          /\ byte # 0 => ~ready']_vars

\* the stuffed form of the empty message and its delimiter have been taken: the
\* accumulation was not empty, unstuffed to no byte, and no frame was reported
C20_Witness ==
    /\ phase = "message"
    /\ msg = <<>>
    /\ wire = <<>>
    /\ ~ready
    /\ readyCount = 0
    /\ framePos = 0

\* C21: the accumulation position stays within 0..maxFrameSize and the
\* accumulation buffer keeps its size; a byte other than the delimiter is stored
\* at the accumulation position when there is room, and when the buffer is full
\* it empties the accumulation without being stored; either way no frame is
\* reported, and the bytes that follow are accepted again from position 0.
C21_OverflowPolicy ==
    /\ [](/\ framePos \in 0..maxFrameSize
          /\ DOMAIN frameBuffer = 0..(maxFrameSize - 1))
    /\ [][(ReceiveStep /\ Head(wire) # 0) =>
             /\ ~ready'
             /\ IF framePos < maxFrameSize
                THEN /\ framePos' = framePos + 1
                     /\ frameBuffer' = [frameBuffer EXCEPT ![framePos] = Head(wire)]
                ELSE /\ framePos' = 0
                     /\ frameBuffer' = frameBuffer]_vars

\* a run longer than the capacity filled the buffer to its last slot, emptied
\* it, and the decoder has stored one more byte at position 0
C21_Witness ==
    /\ phase = "raw"
    /\ Len(msg) = maxFrameSize + 3
    /\ Len(wire) = 2
    /\ framePos = 1
    /\ frameBuffer[0] = msg[maxFrameSize + 2]
    /\ frameBuffer[maxFrameSize - 1] = msg[maxFrameSize]

\* the accumulation buffer with every slot past the accumulated bytes zeroed
AccumulatedOnly ==
    [k \in DOMAIN frameBuffer |-> IF k < framePos THEN frameBuffer[k] ELSE 0]

\* processByte is about to call decode: the next byte is the delimiter and the
\* accumulation is not empty
DecodeCall == wire # <<>> /\ Head(wire) = 0 /\ framePos > 0

\* C25: whenever processByte calls decode on n >= 1 accumulated bytes
\* (n <= maxFrameSize, none zero), decode returns at most n - 1 bytes, so never
\* aborts on output overflow; it reads nothing past position n (its result does
\* not depend on what the buffer holds there); and every frame exposed has a
\* length in 1..maxFrameSize - 1.
C25_NeverExpands ==
    /\ DecodeCall =>
          LET d == decode(frameBuffer, framePos, decodeBuffer, maxFrameSize) IN
          /\ \A k \in 0..(framePos - 1) : frameBuffer[k] # 0
          /\ d.len <= framePos - 1
          /\ d = decode(AccumulatedOnly, framePos, decodeBuffer, maxFrameSize)
    /\ ready => decodedLength \in 1..(maxFrameSize - 1)

\* a run length byte that claims four bytes is accumulated with the one byte
\* that follows it, over slots an earlier frame left filled
C25_Witness ==
    /\ phase = "raw"
    /\ msg = <<5, 7>>
    /\ DecodeCall
    /\ framePos = 2
    /\ frameBuffer[2] # 0
    /\ frameBuffer[3] # 0

\* the bytes put on the line before the closing delimiter
CobsOnLine ==
    IF phase = "raw" THEN msg
    ELSE IF phase = "message" THEN Encode(msg)
    ELSE <<>>

\* C27: when more bytes than maxFrameSize, none of them the delimiter, arrive
\* after a delimiter, processByte reports no frame for any of them nor for the
\* delimiter that closes them, and the accumulation is empty after it.
C27_OversizedNoFrame ==
    Len(CobsOnLine) > maxFrameSize =>
        /\ readyCount = 0
        /\ ~ready
        /\ wire = <<>> => framePos = 0

(***************************************************************************)
(* The two cores step by step: each queue call from mutex_enter_blocking   *)
(* to mutex_exit, each counter++ as a load and a store, begin() and end()  *)
(***************************************************************************)

\* frames the host sends in one behaviour
MaxCoreFrames == 3
\* the size of the decoder's buffers and of packetData
CoreFrameSize == 16
\* the size of the ring: one packet of one pixel fits, or two short frames
CoreQueueSize == 16

\* a valid packet of one pixel with the push flag, and a frame too short to parse
CoreFrames ==
    {MakePacket(DDP_FLAG_VER1 + DDP_FLAG_PUSH, 0, <<10, 20, 30>>),
     <<DDP_FLAG_VER1, 1, DDP_TYPE_RGB, 1, 0, 0>>}

\* the state the constructors leave, core 1 not launched
CoreInit ==
    /\ numLEDs \in RenderStripLengths
    /\ pixels = [i \in 0..(numLEDs - 1) |-> <<0, 0, 0>>]
    /\ shows = 0
    /\ totalLEDs = numLEDs
    /\ maxScale = 255
    /\ minScale = 102
    /\ thresholdCount = 4
    /\ maxFrameSize = CoreFrameSize
    /\ \E g \in CobsGarbage :
          /\ frameBuffer = [i \in 0..(CoreFrameSize - 1) |-> g]
          /\ decodeBuffer = [i \in 0..(CoreFrameSize - 1) |-> g]
          /\ data = [i \in 0..(CoreFrameSize - 1) |-> g]
          /\ buffer = [i \in 0..(CoreQueueSize - 1) |-> g]
    /\ framePos = 0
    /\ decodedLength = 0
    /\ writeIndex = 0
    /\ readIndex = 0
    /\ count = 0
    /\ running = FALSE
    /\ packetsReceived = 0
    /\ packetsProcessed = 0
    /\ packetsDropped = 0
    /\ wire = <<>>
    /\ msg = <<>>
    /\ ready = FALSE
    /\ readyCount = 0
    /\ sent = 0
    /\ tick = [end |-> "none"]
    /\ phase = "none"
    /\ call = [op |-> "none"]
    /\ writes = <<>>
    /\ reads = <<>>
    /\ lossy = FALSE
    /\ queued = <<>>
    /\ rgbData = <<>>
    /\ rgbCount = 0
    /\ rgbBefore = <<>>
    /\ applied = 0
    /\ ParseUnused
    /\ mutex = "free"
    /\ pc0 = "idle"
    /\ pc1 = "stopped"
    /\ reg0 = 0
    /\ reg1 = 0
    /\ incs = NoIncrements

\* what no step of either core touches
CoreRest == <<qobs, phase, lobs, lvars, maxFrameSize, numLEDs>>

\* the host puts one stuffed frame and its delimiter on the serial line
CoreHostSend ==
    /\ sent < MaxCoreFrames
    /\ wire = <<>>
    /\ \E m \in CoreFrames :
          /\ msg' = m
          /\ wire' = Encode(m) \o <<0>>
    /\ sent' = sent + 1
    /\ UNCHANGED <<qvars, data, frameBuffer, framePos, decodeBuffer, decodedLength,
                   ready, readyCount, pvars, pixels, shows, dvars, tick, kvars, kobs,
                   CoreRest>>

\* void begin() on core 0: buffer.clear() under the mutex, the counters,
\* running, and multicore_launch_core1
CoreBegin ==
    /\ pc0 = "idle"
    /\ ~running
    /\ mutex = "free"
    /\ writeIndex' = 0
    /\ readIndex' = 0
    /\ count' = 0
    /\ packetsReceived' = 0
    /\ packetsProcessed' = 0
    /\ packetsDropped' = 0
    /\ running' = TRUE
    /\ pc1' = "loop"
    /\ incs' = NoIncrements
    /\ UNCHANGED <<buffer, data, cvars, cobs, pvars, ovars, dobs, mutex, pc0, reg0,
                   reg1, qobs, lobs, lvars>>

\* void end() on core 0, first statement: running = false
EndFlag ==
    /\ pc0 = "idle"
    /\ running
    /\ running' = FALSE
    /\ pc0' = "end_reset"
    /\ UNCHANGED <<qvars, data, cvars, cobs, pvars, ovars, packetsReceived,
                   packetsProcessed, packetsDropped, dobs, mutex, pc1, reg0, reg1,
                   kobs, qobs, lobs, lvars>>

\* void end(), second statement: multicore_reset_core1() stops core 1 wherever
\* it stands
EndReset ==
    /\ pc0 = "end_reset"
    /\ pc1' = "stopped"
    /\ pc0' = "idle"
    /\ UNCHANGED <<qvars, data, cvars, cobs, pvars, ovars, dvars, dobs, mutex, reg0,
                   reg1, kobs, qobs, lobs, lvars>>

\* core1Loop: while (running)
Core1LoopCheck ==
    /\ pc1 = "loop"
    /\ pc1' = IF running THEN "poll" ELSE "stopped"
    /\ UNCHANGED <<qvars, data, cvars, cobs, pvars, ovars, dvars, dobs, mutex, pc0,
                   reg0, reg1, kobs, qobs, lobs, lvars>>

\* core1Loop: while (Serial.available() > 0), Serial.read() and processByte
Core1Poll ==
    /\ pc1 = "poll"
    /\ IF wire = <<>>
       THEN /\ pc1' = "loop"
            /\ UNCHANGED <<frameBuffer, framePos, decodeBuffer, decodedLength, wire,
                           ready, readyCount>>
       ELSE \E p \in {processByte(Head(wire))} :
            /\ frameBuffer' = p.frameBuffer
            /\ framePos' = p.framePos
            /\ decodeBuffer' = p.decodeBuffer
            /\ decodedLength' = p.decodedLength
            /\ ready' = p.ret
            /\ readyCount' = readyCount + (IF p.ret THEN 1 ELSE 0)
            /\ wire' = Tail(wire)
            /\ pc1' = IF p.ret THEN "write" ELSE "poll"
    /\ UNCHANGED <<qvars, data, msg, pvars, pixels, shows, dvars, dobs, mutex, pc0,
                   reg0, reg1, kobs, CoreRest>>

\* buffer.write(frame, frameLen) up to mutex_enter_blocking
Core1WriteEnter ==
    /\ pc1 = "write"
    /\ IF decodedLength = 0 \/ decodedLength > BUFFER_SIZE
       THEN pc1' = "drop_load" /\ UNCHANGED mutex
       ELSE mutex = "free" /\ mutex' = "core1" /\ pc1' = "in_write"
    /\ UNCHANGED <<qvars, data, cvars, cobs, pvars, ovars, dvars, dobs, pc0, reg0,
                   reg1, kobs, qobs, lobs, lvars>>

\* buffer.write inside the mutex: the space check, then header and data stored
Core1WriteStore ==
    /\ pc1 = "in_write"
    /\ \E w \in {write(getFrame)} :
          IF w.ret
          THEN /\ buffer' = w.buffer
               /\ writeIndex' = w.writeIndex
               /\ pc1' = "in_write_count"
               /\ UNCHANGED mutex
          ELSE /\ mutex' = "free"
               /\ pc1' = "drop_load"
               /\ UNCHANGED <<buffer, writeIndex>>
    /\ UNCHANGED <<readIndex, count, data, cvars, cobs, pvars, ovars, dvars, dobs, pc0,
                   reg0, reg1, kobs, qobs, lobs, lvars>>

\* mutant of Core1WriteCount: the used count grows by the length only
Core1WriteCountNoHeader ==
    /\ pc1 = "in_write_count"
    /\ count' = count + decodedLength
    /\ mutex' = "free"
    /\ pc1' = "recv_load"
    /\ UNCHANGED <<buffer, writeIndex, readIndex, data, cvars, cobs, pvars, ovars,
                   dvars, dobs, pc0, reg0, reg1, kobs, qobs, lobs, lvars>>

\* buffer.write inside the mutex: count += required, mutex_exit
Core1WriteCount ==
    /\ pc1 = "in_write_count"
    /\ count' = count + decodedLength + 2
    /\ mutex' = "free"
    /\ pc1' = "recv_load"
    /\ UNCHANGED <<buffer, writeIndex, readIndex, data, cvars, cobs, pvars, ovars,
                   dvars, dobs, pc0, reg0, reg1, kobs, qobs, lobs, lvars>>

\* packetsReceived++ or packetsDropped++ on core 1: the load
Core1Load ==
    /\ pc1 \in {"recv_load", "drop_load"}
    /\ reg1' = IF pc1 = "recv_load" THEN packetsReceived ELSE packetsDropped
    /\ pc1' = IF pc1 = "recv_load" THEN "recv_store" ELSE "drop_store"
    /\ UNCHANGED <<qvars, data, cvars, cobs, pvars, ovars, dvars, dobs, mutex, pc0,
                   reg0, kobs, qobs, lobs, lvars>>

\* packetsReceived++ or packetsDropped++ on core 1: the store
Core1Store ==
    /\ pc1 \in {"recv_store", "drop_store"}
    /\ IF pc1 = "recv_store"
       THEN /\ packetsReceived' = reg1 + 1
            /\ incs' = [incs EXCEPT !.received.core1 = @ + 1]
            /\ UNCHANGED packetsDropped
       ELSE /\ packetsDropped' = reg1 + 1
            /\ incs' = [incs EXCEPT !.dropped.core1 = @ + 1]
            /\ UNCHANGED packetsReceived
    /\ pc1' = "poll"
    /\ UNCHANGED <<qvars, data, cvars, cobs, pvars, ovars, running, packetsProcessed,
                   dobs, mutex, pc0, reg0, reg1, qobs, lobs, lvars>>

\* update() on core 0: buffer.available() up to mutex_enter_blocking
UpdateAvailableEnter ==
    /\ pc0 = "idle"
    /\ mutex = "free"
    /\ mutex' = "core0"
    /\ pc0' = "in_avail"
    /\ UNCHANGED <<qvars, data, cvars, cobs, pvars, ovars, dvars, dobs, pc1, reg0,
                   reg1, kobs, qobs, lobs, lvars>>

\* buffer.available() inside the mutex, and the return of update() when the
\* queue has no data
UpdateAvailable ==
    /\ pc0 = "in_avail"
    /\ mutex' = "free"
    /\ IF available
       THEN pc0' = "read" /\ UNCHANGED tick
       ELSE /\ pc0' = "idle"
            /\ tick' = [end |-> "empty", calls |-> <<>>, shows |-> 0]
    /\ UNCHANGED <<qvars, data, cvars, cobs, pvars, ovars, dvars, sent, pc1, reg0,
                   reg1, kobs, qobs, lobs, lvars>>

\* buffer.read(packetData, sizeof(packetData)) up to mutex_enter_blocking
UpdateReadEnter ==
    /\ pc0 = "read"
    /\ mutex = "free"
    /\ mutex' = "core0"
    /\ pc0' = "in_read"
    /\ UNCHANGED <<qvars, data, cvars, cobs, pvars, ovars, dvars, dobs, pc1, reg0,
                   reg1, kobs, qobs, lobs, lvars>>

\* buffer.read inside the mutex, then parsePacket on the frame read
UpdateRead ==
    /\ pc0 = "in_read"
    /\ mutex' = "free"
    /\ \E r \in {read(data, Cardinality(DOMAIN data))} :
          /\ readIndex' = r.readIndex
          /\ count' = r.count
          /\ data' = r.data
          /\ IF r.ret = 0
             THEN /\ pc0' = "idle"
                  /\ tick' = [end |-> "unread", calls |-> <<>>, shows |-> 0]
                  /\ UNCHANGED pvars
             ELSE \E p \in {parsePacket(r.data, r.ret, NoPacket)} :
                  /\ packetLen' = r.ret
                  /\ packet' = p.packet
                  /\ parsed' = IF p.ret THEN "accepted" ELSE "rejected"
                  /\ pc0' = IF p.ret THEN "proc_load" ELSE "pdrop_load"
                  /\ UNCHANGED tick
    /\ UNCHANGED <<buffer, writeIndex, cvars, cobs, ovars, dvars, sent, pc1, reg0,
                   reg1, kobs, qobs, lobs, lvars>>

\* packetsDropped++ or packetsProcessed++ on core 0: the load
UpdateLoad ==
    /\ pc0 \in {"pdrop_load", "proc_load"}
    /\ reg0' = IF pc0 = "pdrop_load" THEN packetsDropped ELSE packetsProcessed
    /\ pc0' = IF pc0 = "pdrop_load" THEN "pdrop_store" ELSE "proc_store"
    /\ UNCHANGED <<qvars, data, cvars, cobs, pvars, ovars, dvars, dobs, mutex, pc1,
                   reg1, kobs, qobs, lobs, lvars>>

\* packetsDropped++ or packetsProcessed++ on core 0: the store; a parse failure
\* returns from update()
UpdateStore ==
    /\ pc0 \in {"pdrop_store", "proc_store"}
    /\ IF pc0 = "pdrop_store"
       THEN /\ packetsDropped' = reg0 + 1
            /\ incs' = [incs EXCEPT !.dropped.core0 = @ + 1]
            /\ tick' = [end |-> "dropped", calls |-> <<>>, shows |-> 0]
            /\ pc0' = "idle"
            /\ UNCHANGED packetsProcessed
       ELSE /\ packetsProcessed' = reg0 + 1
            /\ incs' = [incs EXCEPT !.processed.core0 = @ + 1]
            /\ pc0' = "apply"
            /\ UNCHANGED <<packetsDropped, tick>>
    /\ UNCHANGED <<qvars, data, cvars, cobs, pvars, ovars, running, packetsReceived,
                   sent, mutex, pc1, reg0, reg1, qobs, lobs, lvars>>

\* applyPixelData(packet) and orb.pixelsShow() if the packet asks for it; the
\* statistics are printed when 5 seconds have passed
UpdateApply ==
    /\ pc0 = "apply"
    /\ \E a \in {applyPixelData(packet, data)},
          n \in {IF shouldPush(packet) THEN 1 ELSE 0} :
          /\ data' = a.data
          /\ pixels' = a.pixels
          /\ shows' = shows + n
          /\ tick' = [end |-> "processed", calls |-> a.calls, shows |-> n]
    /\ pc0' \in {"idle", "stats"}
    /\ UNCHANGED <<qvars, cvars, cobs, pvars, numLEDs, dvars, sent, mutex, pc1, reg0,
                   reg1, kobs, qobs, lobs, lvars>>

\* printStats(): buffer.getUsagePercent() up to mutex_enter_blocking
UpdateStatsEnter ==
    /\ pc0 = "stats"
    /\ mutex = "free"
    /\ mutex' = "core0"
    /\ pc0' = "in_stats"
    /\ UNCHANGED <<qvars, data, cvars, cobs, pvars, ovars, dvars, dobs, pc1, reg0,
                   reg1, kobs, qobs, lobs, lvars>>

\* buffer.getUsagePercent() inside the mutex, and the return of update()
UpdateStats ==
    /\ pc0 = "in_stats"
    /\ mutex' = "free"
    /\ pc0' = "idle"
    /\ UNCHANGED <<qvars, data, cvars, cobs, pvars, ovars, dvars, dobs, pc1, reg0,
                   reg1, kobs, qobs, lobs, lvars>>

CoreNext ==
    \/ CoreHostSend
    \/ CoreBegin
    \/ EndFlag
    \/ EndReset
    \/ Core1LoopCheck
    \/ Core1Poll
    \/ Core1WriteEnter
    \/ Core1WriteStore
    \/ Core1WriteCount
    \/ Core1Load
    \/ Core1Store
    \/ UpdateAvailableEnter
    \/ UpdateAvailable
    \/ UpdateReadEnter
    \/ UpdateRead
    \/ UpdateLoad
    \/ UpdateStore
    \/ UpdateApply
    \/ UpdateStatsEnter
    \/ UpdateStats

SpecCores == CoreInit /\ [][CoreNext]_vars

(***************************************************************************)
(* Claims about the two cores                                              *)
(***************************************************************************)

\* core 0 is between the load and the store of a counter++
Core0Incrementing == pc0 \in {"pdrop_store", "proc_store"}

\* core 1 is between the load and the store of a counter++
Core1Incrementing == pc1 \in {"recv_store", "drop_store"}

\* core 0 is inside a queue call, between mutex_enter_blocking and mutex_exit
Core0InQueueCall == pc0 \in {"in_avail", "in_read", "in_stats"}

\* core 1 is inside a queue call, between mutex_enter_blocking and mutex_exit
Core1InQueueCall == pc1 \in {"in_write", "in_write_count"}

\* C13: while running, no counter field is incremented by both cores, so no
\* increment is lost: whenever no increment is under way, each counter equals the
\* number of increments made on it since begin().
C13_SingleWriterPerField ==
    /\ \A f \in DOMAIN incs : ~(incs[f].core0 > 0 /\ incs[f].core1 > 0)
    /\ (~Core0Incrementing /\ ~Core1Incrementing) =>
          /\ packetsReceived = incs.received.core0 + incs.received.core1
          /\ packetsProcessed = incs.processed.core0 + incs.processed.core1
          /\ packetsDropped = incs.dropped.core0 + incs.dropped.core1

\* C14: between one begin() and the next, under every interleaving of the two
\* cores with each counter++ a separate load and store, no step lowers the
\* received, the processed or the dropped counter.
C14_CountersMonotonic ==
    [][~(~running /\ running') =>
          /\ packetsReceived' >= packetsReceived
          /\ packetsProcessed' >= packetsProcessed
          /\ packetsDropped' >= packetsDropped]_vars

\* C15: the two cores are never both inside a queue call, the mutex is owned by
\* a core exactly while that core is inside a queue call, and it is free whenever
\* neither core is inside one.
C15_LockDiscipline ==
    /\ ~(Core0InQueueCall /\ Core1InQueueCall)
    /\ mutex = "core0" <=> Core0InQueueCall
    /\ mutex = "core1" <=> Core1InQueueCall
    /\ (~Core0InQueueCall /\ ~Core1InQueueCall) => mutex = "free"

\* C16: core 1 stops only at the check of the stop flag: whenever it is stopped it
\* does not own the mutex, so that no later begin() or update() waits for it
\* forever, and the ring holds whole entries only.
C16_CooperativeStop ==
    /\ [][(pc1 # "stopped" /\ pc1' = "stopped") => (pc1 = "loop" /\ ~running)]_vars
    /\ [](pc1 = "stopped" =>
            /\ mutex # "core1"
            /\ writeIndex = (readIndex + count) % BUFFER_SIZE)

\* a step that is a whole call of begin()
BeginStep == ~running /\ running'

\* C22: when begin() returns the controller is running, the queue is empty and
\* the received, processed and dropped counters are 0 whatever they were before;
\* and no step other than begin() lowers a counter or sets it back to 0.
C22_PipelineStart ==
    /\ [][BeginStep =>
             /\ running'
             /\ count' = 0
             /\ ~available'
             /\ writeIndex' = readIndex'
             /\ packetsReceived' = 0
             /\ packetsProcessed' = 0
             /\ packetsDropped' = 0]_vars
    /\ [][~BeginStep =>
             /\ packetsReceived' >= packetsReceived
             /\ packetsProcessed' >= packetsProcessed
             /\ packetsDropped' >= packetsDropped]_vars

\* a step in which update() leaves buffer.read, after buffer.available()
\* returned true
TickReadStep == pc0 = "in_read" /\ pc0' # "in_read"

\* C24: while running, the buffer.read of an update() that found data available
\* never resets the queue: it returns a length in 1..maxFrameSize - 1 (the read
\* limit is the decoder's capacity), the length is the one in the header at the
\* read index, and exactly that entry leaves the ring, whatever core 1 wrote in
\* between.
C24_NoSpuriousReset ==
    [][(TickReadStep /\ running) =>
          /\ pc0' # "idle"
          /\ packetLen' \in 1..(maxFrameSize - 1)
          /\ <<buffer[readIndex], buffer[(readIndex + 1) % BUFFER_SIZE]>>
                 = LengthHeader(packetLen')
          /\ count' = count - (packetLen' + 2)
          /\ readIndex' = (readIndex + packetLen' + 2) % BUFFER_SIZE]_vars

\* update() has read an entry while another is queued behind it and core 1 has
\* just finished writing one
C24_Witness ==
    /\ running
    /\ pc0 \in {"proc_load", "pdrop_load"}
    /\ count > 0
    /\ pc1 = "recv_load"

\* C26: while running, under every interleaving of the two cores, the processed
\* counter is at most the received counter.
C26_ProcessedAtMostReceived ==
    running => packetsProcessed <= packetsReceived

====
